---- MODULE Spec2Model ----
(***************************************************************************)
(* A model of ledger-fetch: the ledger of per-bank month files written by  *)
(* BankDownloader.save_transactions, the per-bank accounts.csv, the        *)
(* transfer reconciler link_transfers, the offline payee normalisation,    *)
(* and the pure helpers of TransactionNormalizer.                          *)
(*                                                                         *)
(* Amounts are whole currency units (the code holds them as floats).       *)
(* A Transfer Id cell that is empty (NaN after read_csv) is NoTid.         *)
(* A month file that does not exist is the empty sequence: CSVWriter.write *)
(* never writes a file without rows.                                       *)
(***************************************************************************)
EXTENDS Integers, Sequences, FiniteSets, TLC

VARIABLES
    files,      \* ledger: <<bank, month prefix>> -> rows of <prefix>.csv
    accounts,   \* bank -> rows of the bank's accounts.csv
    matched,    \* rows of matched_transfers.csv
    amblog,     \* entries of ambiguous_transfers.log (<<>>: no such file)
    last,       \* history: the operation that produced this state
    run         \* the downloader run in progress: its bank, its accounts_cache

vars == <<files, accounts, matched, amblog, last, run>>

(***************************************************************************)
(* Bounds and domains                                                      *)
(***************************************************************************)
MaxBatch == 2               \* transactions in one downloaded batch

Banks == {1, 2}
IdsOf(b) == IF b = 1 THEN {1, 2} ELSE {3}     \* transaction ids a bank issues
\* the account a transaction is on (4: a second account held at bank 1)
AcctOf(i) == CASE i = 3 -> 2 [] i = 4 -> 3 [] OTHER -> 1
AcctsOf(b) == {AcctOf(i) : i \in IdsOf(b)}
Liabilities == {1}                             \* accounts whose sign may be inverted
BankAmounts == {-1, 1}

NoTid == 0
NaT == 0
\* the Amount of a cell pd.to_numeric(errors='coerce') cannot parse: it is
\* no real amount, equal to none, neither above nor below zero
NaN == 999

Abs(x) == IF x < 0 THEN -x ELSE x

RECURSIVE SetToSeq(_)
SetToSeq(S) ==
    IF S = {} THEN <<>>
    ELSE LET x == CHOOSE y \in S : TRUE IN <<x>> \o SetToSeq(S \ {x})

SeqsUpTo(S, n) == UNION {[1..k -> S] : k \in 0..n}

(***************************************************************************)
(* Date strings: their length, their first seven characters (date[:7]) and *)
(* what pd.to_datetime(errors='coerce') makes of them (yyyymmdd, or NaT).  *)
(***************************************************************************)
DateLen(d) ==
    CASE d = "" -> 0
      [] d = "2024-03-01" -> 10
      [] d = "2024-03-15" -> 10
      [] d = "2024-04-01" -> 10
      [] d = "2024-03-99" -> 10
      [] d = "1 March 2024" -> 12

Prefix7(d) ==
    CASE d = "" -> ""
      [] d = "2024-03-01" -> "2024-03"
      [] d = "2024-03-15" -> "2024-03"
      [] d = "2024-04-01" -> "2024-04"
      [] d = "2024-03-99" -> "2024-03"
      [] d = "1 March 2024" -> "1 March"

PdDate(d) ==
    CASE d = "" -> NaT
      [] d = "2024-03-01" -> 20240301
      [] d = "2024-03-15" -> 20240315
      [] d = "2024-04-01" -> 20240401
      [] d = "2024-03-99" -> NaT
      [] d = "1 March 2024" -> 20240301

Prefixes == {"2024-03", "2024-04", "1 March"}
FileKeys == Banks \X Prefixes
FileSeq == SetToSeq(FileKeys)
NoFiles == [f \in FileKeys |-> <<>>]

(***************************************************************************)
(* Text: strings whose characters matter are sequences of one-character    *)
(* strings.                                                                *)
(***************************************************************************)
Lower(c) ==
    CASE c = "A" -> "a" [] c = "B" -> "b" [] c = "C" -> "c" [] c = "E" -> "e"
      [] c = "K" -> "k" [] c = "L" -> "l" [] c = "M" -> "m" [] c = "N" -> "n"
      [] c = "O" -> "o" [] c = "P" -> "p" [] c = "Q" -> "q" [] c = "R" -> "r"
      [] c = "S" -> "s" [] c = "T" -> "t" [] c = "X" -> "x" [] c = "Y" -> "y"
      [] OTHER -> c

LowerStr(s) == [i \in DOMAIN s |-> Lower(s[i])]

IsSpace(c) == c = " "

\* k in s
IsSubstr(k, s) ==
    \E i \in 0..(Len(s) - Len(k)) : SubSeq(s, i + 1, i + Len(k)) = k

StartsWith(s, p) == Len(s) >= Len(p) /\ SubSeq(s, 1, Len(p)) = p

\* re.sub(r'\s+', ' ', s)
RECURSIVE CollapseSpaces(_)
CollapseSpaces(s) ==
    IF Len(s) = 0 THEN s
    ELSE IF Len(s) >= 2 /\ IsSpace(s[1]) /\ IsSpace(s[2])
         THEN CollapseSpaces(Tail(s))
         ELSE <<(IF IsSpace(s[1]) THEN " " ELSE s[1])>> \o CollapseSpaces(Tail(s))

\* str.strip() of a string whose whitespace runs are single spaces
Strip(s) ==
    LET a == IF Len(s) > 0 /\ IsSpace(s[1]) THEN Tail(s) ELSE s
    IN  IF Len(a) > 0 /\ IsSpace(a[Len(a)]) THEN SubSeq(a, 1, Len(a) - 1) ELSE a

BankPrefixes ==
    << <<"R", "B", "C", " ">>,
       <<"R", "O", "Y", "A", "L", " ", "B", "A", "N", "K", " ">>,
       <<"A", "M", "E", "X", " ">> >>

\* re.sub(r'^(RBC |ROYAL BANK |AMEX )', '', cleaned, flags=re.IGNORECASE)
RECURSIVE StripBankPrefix(_, _)
StripBankPrefix(s, k) ==
    IF k > Len(BankPrefixes) THEN s
    ELSE IF StartsWith(LowerStr(s), LowerStr(BankPrefixes[k]))
         THEN SubSeq(s, Len(BankPrefixes[k]) + 1, Len(s))
         ELSE StripBankPrefix(s, k + 1)

clean_description(description) ==
    IF description = <<>> THEN <<>>
    ELSE StripBankPrefix(Strip(CollapseSpaces(description)), 1)

(***************************************************************************)
(* Payee rules.  A rule is [name, keywords, regex]; a regex pattern is     *)
(* [kind, text]: "lit" searches text anywhere, "start" is ^text, and "bad" *)
(* does not compile (re.search raises re.error).                           *)
(***************************************************************************)
KeywordHit(keyword, cleaned) == IsSubstr(LowerStr(keyword), LowerStr(cleaned))

\* re.search(pattern, cleaned, re.IGNORECASE) inside try/except re.error
RegexHit(pattern, cleaned) ==
    CASE pattern.kind = "lit" -> IsSubstr(LowerStr(pattern.text), LowerStr(cleaned))
      [] pattern.kind = "start" -> StartsWith(LowerStr(cleaned), LowerStr(pattern.text))
      [] pattern.kind = "bad" -> FALSE

\* the loop over the patterns left at the first one that does not compile
RuleHitStopAtBad(rule, cleaned) ==
    \/ \E k \in DOMAIN rule.keywords : KeywordHit(rule.keywords[k], cleaned)
    \/ \E k \in DOMAIN rule.regex :
          /\ RegexHit(rule.regex[k], cleaned)
          /\ \A j \in 1..(k - 1) : rule.regex[j].kind # "bad"

RuleHit(rule, cleaned) ==
    \/ \E k \in DOMAIN rule.keywords : KeywordHit(rule.keywords[k], cleaned)
    \/ \E k \in DOMAIN rule.regex : RegexHit(rule.regex[k], cleaned)

\* the loop without its early return: the last rule that hits wins
PayeeFromLastHit(rules, cleaned, i) ==
    LET hits == {k \in i..Len(rules) : RuleHit(rules[k], cleaned)}
    IN  IF hits = {} THEN cleaned
        ELSE rules[CHOOSE k \in hits : \A j \in hits : j <= k].name

\* the loop "for rule in rules" from rule i on
RECURSIVE PayeeFrom(_, _, _)
PayeeFrom(rules, cleaned, i) ==
    IF i > Len(rules) THEN cleaned
    ELSE IF RuleHit(rules[i], cleaned) THEN rules[i].name
         ELSE PayeeFrom(rules, cleaned, i + 1)

normalize_payee(rules, raw_payee) ==
    IF raw_payee = <<>> THEN <<>>
    ELSE PayeeFrom(rules, clean_description(raw_payee), 1)

(***************************************************************************)
(* generate_transaction_id.  MD5 is taken to be collision-free, so the     *)
(* digest is represented by the string that is hashed.                     *)
(***************************************************************************)
RECURSIVE Digits(_)
Digits(n) ==
    IF n < 10 THEN <<CASE n = 0 -> "0" [] n = 1 -> "1" [] n = 2 -> "2"
                       [] n = 3 -> "3" [] n = 4 -> "4" [] n = 5 -> "5"
                       [] n = 6 -> "6" [] n = 7 -> "7" [] n = 8 -> "8"
                       [] n = 9 -> "9">>
    ELSE Digits(n \div 10) \o Digits(n % 10)

\* f"{amount}" of a float holding a whole number
FormatAmount(a) ==
    (IF a < 0 THEN <<"-">> ELSE <<>>) \o Digits(Abs(a)) \o <<".", "0">>

\* the pre-hash string without the description
generate_transaction_idNoDescription(date, amount, description, account_id) ==
    date \o <<"|">> \o FormatAmount(amount) \o <<"|">> \o account_id

generate_transaction_id(date, amount, description, account_id) ==
    date \o <<"|">> \o FormatAmount(amount) \o <<"|">> \o description
         \o <<"|">> \o account_id

(***************************************************************************)
(* BankDownloader._is_better_account_number                                *)
(***************************************************************************)
IsBlank(s) == \A i \in DOMAIN s : IsSpace(s[i])
IsMasked(s) == \E i \in DOMAIN s : s[i] = "*"

\* the decision list without the exception for existing == unique_id
is_better_account_numberNoException(existing, new, unique_id) ==
    IF IsBlank(new) THEN FALSE
    ELSE IF IsBlank(existing) THEN TRUE
    ELSE IF IsMasked(existing) /\ ~IsMasked(new) THEN TRUE
    ELSE IF ~IsMasked(new) /\ Len(new) > Len(existing) THEN TRUE
    ELSE FALSE

\* the decision list whose last test takes any longer number, masked or not
is_better_account_numberAnyLonger(existing, new, unique_id) ==
    IF IsBlank(new) THEN FALSE
    ELSE IF IsBlank(existing) THEN TRUE
    ELSE IF unique_id # <<>> /\ existing = unique_id THEN FALSE
    ELSE IF IsMasked(existing) /\ ~IsMasked(new) THEN TRUE
    ELSE IF Len(new) > Len(existing) THEN TRUE
    ELSE FALSE

is_better_account_number(existing, new, unique_id) ==
    IF IsBlank(new) THEN FALSE
    ELSE IF IsBlank(existing) THEN TRUE
    ELSE IF unique_id # <<>> /\ existing = unique_id THEN FALSE
    ELSE IF IsMasked(existing) /\ ~IsMasked(new) THEN TRUE
    ELSE IF ~IsMasked(new) /\ Len(new) > Len(existing) THEN TRUE
    ELSE FALSE

(***************************************************************************)
(* Transactions and CSV rows.  A downloaded transaction is                 *)
(* [id, acct, date, amt, desc, payee, num] (num: the 'Account Number' of   *)
(* its raw data); a row of a month file is [id, acct, date, amt, desc,     *)
(* payee, tid]; an account, fetched or as a row of accounts.csv, is        *)
(* [id, num, type, bal] (its Account Number, Type and Current Balance).    *)
(***************************************************************************)
\* a row written with its own id as Transfer Id
to_csv_rowSelfLinked(t) ==
    [id |-> t.id, acct |-> t.acct, date |-> t.date, amt |-> t.amt,
     desc |-> t.desc, payee |-> t.payee, tid |-> t.id]

\* Transaction.to_csv_row: the required fields; no 'Transfer Id' key
to_csv_row(t) ==
    [id |-> t.id, acct |-> t.acct, date |-> t.date, amt |-> t.amt,
     desc |-> t.desc, payee |-> t.payee, tid |-> NoTid]

\* "t.amount = -amount" for the accounts whose credit transactions the
\* bank configuration inverts (liability accounts of accounts_cache)
InvertSign(t, inv) == IF t.acct \in inv THEN [t EXCEPT !.amt = -t.amt] ELSE t

txn_dicts(batch, inv) ==
    [i \in DOMAIN batch |-> to_csv_row(InvertSign(batch[i], inv))]

InMonth(r, month) == DateLen(r.date) >= 7 /\ Prefix7(r.date) = month

\* by_month[month]
by_month(rows, month) == SelectSeq(rows, LAMBDA r : InMonth(r, month))

\* month files opened for append instead of 'w'
WriteMonthsAppend(fs, bank, rows) ==
    [f \in FileKeys |->
        IF f[1] = bank THEN fs[f] \o by_month(rows, f[2]) ELSE fs[f]]

\* the month files after "for month, txns in by_month.items(): writer.write"
WriteMonths(fs, bank, rows) ==
    [f \in FileKeys |->
        IF f[1] = bank /\ by_month(rows, f[2]) # <<>>
        THEN by_month(rows, f[2])
        ELSE fs[f]]

AcctIdStr(a) == Digits(a)

AcctIndex(known, a) ==
    IF \E k \in DOMAIN known : known[k].id = a
    THEN CHOOSE k \in DOMAIN known : known[k].id = a
    ELSE 0

\* the loop "for txn in transactions" of ensure_accounts_exist, from txn i
RECURSIVE EnsureFrom(_, _, _)
EnsureFrom(known, batch, i) ==
    IF i > Len(batch) THEN known
    ELSE LET txn == batch[i]
             k == AcctIndex(known, txn.acct)
         IN  IF k # 0
             THEN IF is_better_account_number(known[k].num, txn.num, AcctIdStr(txn.acct))
                  THEN EnsureFrom([known EXCEPT ![k].num = txn.num], batch, i + 1)
                  ELSE EnsureFrom(known, batch, i + 1)
             ELSE EnsureFrom(Append(known, [id |-> txn.acct, num |-> txn.num,
                                            type |-> "", bal |-> 0]),
                             batch, i + 1)

\* AccountType values that Account.is_liability lists
LiabilityTypes == {"Credit Card", "Line of Credit", "Mortgage", "Loan"}

is_liability(acc) == acc.type \in LiabilityTypes

\* "Enforce negative balance" without the test "current_balance > 0"
save_accountsFlip(accts) ==
    [k \in DOMAIN accts |->
        IF is_liability(accts[k])
        THEN [accts[k] EXCEPT !.bal = -accts[k].bal]
        ELSE accts[k]]

\* accounts.csv after save_accounts(accts): the given accounts, nothing
\* else, a positive balance of a liability negated
save_accounts(accts) ==
    [k \in DOMAIN accts |->
        IF is_liability(accts[k]) /\ accts[k].bal > 0
        THEN [accts[k] EXCEPT !.bal = -accts[k].bal]
        ELSE accts[k]]

\* accounts.csv after ensure_accounts_exist: when an account was added or a
\* number updated, the known accounts go through save_accounts
ensure_accounts_exist(known, batch) ==
    LET merged == EnsureFrom(known, batch, 1)
    IN  IF merged # known THEN save_accounts(merged) ELSE known

(***************************************************************************)
(* link_transfers                                                          *)
(***************************************************************************)
RECURSIVE Ascending(_)
Ascending(S) ==
    IF S = {} THEN <<>>
    ELSE LET m == CHOOSE x \in S : \A y \in S : x <= y
         IN  <<m>> \o Ascending(S \ {m})

\* one file's DataFrame with _source_file_index and _original_index
ReadCsv(fs, f) ==
    [i \in 1..Len(fs[f]) |-> [file |-> f, pos |-> i] @@ fs[f][i]]

RECURSIVE ConcatFrom(_, _)
ConcatFrom(fs, k) ==
    IF k > Len(FileSeq) THEN <<>>
    ELSE ReadCsv(fs, FileSeq[k]) \o ConcatFrom(fs, k + 1)

\* full_df = pd.concat(all_dfs, ignore_index=True)
full_df(fs) == ConcatFrom(fs, 1)

\* --clear-transfers that clears the rows of positive amount only
ClearTransfersPositives(df) ==
    [i \in DOMAIN df |-> IF df[i].amt > 0 THEN [df[i] EXCEPT !.tid = NoTid] ELSE df[i]]

ClearTransfers(df) == [i \in DOMAIN df |-> [df[i] EXCEPT !.tid = NoTid]]

\* groupby(['abs_amount']) alone: rows of all dates in one group
GroupKeyAnyDate(r) == <<PdDate("2024-03-01"), Abs(r.amt)>>

\* the key of groupby(['pd_date', 'abs_amount'])
GroupKey(r) == <<PdDate(r.date), Abs(r.amt)>>

\* unmatched_mask without "full_df['pd_date'].notna()"
unmatchedAnyDate(df) ==
    {i \in DOMAIN df : df[i].tid = NoTid /\ df[i].amt # 0}

\* unmatched_mask without "full_df['Transfer Id'].isna()"
unmatchedOrLinked(df) ==
    {i \in DOMAIN df : PdDate(df[i].date) # NaT /\ df[i].amt # 0}

\* unmatched_mask: no Transfer Id, parsed date, amount not zero
unmatched(df) ==
    {i \in DOMAIN df : df[i].tid = NoTid /\ PdDate(df[i].date) # NaT /\ df[i].amt # 0}

\* the keys of process_df.groupby: a key with a NaN abs_amount is dropped
groups(df) == {GroupKey(df[i]) : i \in {j \in unmatched(df) : df[j].amt # NaN}}

positives(df, key) ==
    {i \in unmatched(df) : GroupKey(df[i]) = key /\ df[i].amt # NaN /\ df[i].amt > 0}
negatives(df, key) ==
    {i \in unmatched(df) : GroupKey(df[i]) = key /\ df[i].amt # NaN /\ df[i].amt < 0}

\* Case 1 without the check for different accounts
IsMatchAnyAccount(df, key) ==
    /\ Cardinality(positives(df, key)) = 1
    /\ Cardinality(negatives(df, key)) = 1

\* Case 1 with different accounts
IsMatch(df, key) ==
    /\ Cardinality(positives(df, key)) = 1
    /\ Cardinality(negatives(df, key)) = 1
    /\ \A p \in positives(df, key) : \A n \in negatives(df, key) :
           df[p].acct # df[n].acct

\* Case 2 taken only when both sides hold several rows
IsAmbiguousBothSides(df, key) ==
    /\ Cardinality(positives(df, key)) > 1
    /\ Cardinality(negatives(df, key)) > 1

\* Case 2
IsAmbiguous(df, key) ==
    /\ positives(df, key) # {}
    /\ negatives(df, key) # {}
    /\ ~(Cardinality(positives(df, key)) = 1 /\ Cardinality(negatives(df, key)) = 1)

matches_found(df) == Cardinality({key \in groups(df) : IsMatch(df, key)})

\* full_df after the loop over the groups
LinkGroups(df) ==
    [i \in DOMAIN df |->
        LET key == GroupKey(df[i])
        IN  IF i \in unmatched(df) /\ IsMatch(df, key)
            THEN LET other == CHOOSE j \in (positives(df, key) \cup negatives(df, key)) : j # i
                 IN  [df[i] EXCEPT !.tid = df[other].id]
            ELSE df[i]]

KeyBefore(a, b) == a[1] < b[1] \/ (a[1] = b[1] /\ a[2] <= b[2])

RECURSIVE SortKeys(_)
SortKeys(K) ==
    IF K = {} THEN <<>>
    ELSE LET m == CHOOSE x \in K : \A y \in K : KeyBefore(x, y)
         IN  <<m>> \o SortKeys(K \ {m})

TransactionIds(df, S) == [k \in DOMAIN Ascending(S) |-> df[Ascending(S)[k]].id]

\* ambiguous_entries, in groupby order
ambiguous_entries(df) ==
    LET keys == SortKeys({key \in groups(df) : IsAmbiguous(df, key)})
    IN  [k \in DOMAIN keys |->
            [Date |-> keys[k][1], Amount |-> keys[k][2],
             Pos_Count |-> Cardinality(positives(df, keys[k])),
             Neg_Count |-> Cardinality(negatives(df, keys[k])),
             Pos_IDs |-> TransactionIds(df, positives(df, keys[k])),
             Neg_IDs |-> TransactionIds(df, negatives(df, keys[k]))]]

ToleranceNum == 1
ToleranceDen == 100

\* amount_sum > 0.01
Mismatch(a, b) == Abs(a + b) * ToleranceDen > ToleranceNum

PairRow(s, t) ==
    [src_acct |-> s.acct, src_id |-> s.id, src_date |-> s.date, src_amt |-> s.amt,
     tgt_acct |-> t.acct, tgt_id |-> t.id, tgt_date |-> t.date, tgt_amt |-> t.amt]

\* pd.merge(linked_df, target_df, left_on='Transfer Id',
\*          right_on='Target Transaction Id', how='inner'), from row i
RECURSIVE MergeFrom(_, _)
MergeFrom(df, i) ==
    IF i > Len(df) THEN <<>>
    ELSE LET targets == Ascending({j \in DOMAIN df : df[j].id = df[i].tid})
             here == IF df[i].tid = NoTid THEN <<>>
                     ELSE [k \in DOMAIN targets |-> PairRow(df[i], df[targets[k]])]
         IN  here \o MergeFrom(df, i + 1)

\* final_df without "merged_df[merged_df['Amount'] < 0]"
final_dfBothWays(df) ==
    SelectSeq(MergeFrom(df, 1), LAMBDA m : ~Mismatch(m.src_amt, m.tgt_amt))

\* final_df without "merged_df[~mismatch_mask]"
final_dfAnySum(df) == SelectSeq(MergeFrom(df, 1), LAMBDA m : m.src_amt < 0)

\* final_df: pairs whose amounts cancel, source side negative
final_df(df) ==
    SelectSeq(MergeFrom(df, 1),
              LAMBDA m : ~Mismatch(m.src_amt, m.tgt_amt) /\ m.src_amt < 0)

StripHelpers(r) ==
    [id |-> r.id, acct |-> r.acct, date |-> r.date, amt |-> r.amt,
     desc |-> r.desc, payee |-> r.payee, tid |-> r.tid]

\* file_df without the filter on _source_file_index: the whole frame
file_dfAllRows(df, f) == [k \in DOMAIN df |-> StripHelpers(df[k])]

\* file_df of file f, sorted by _original_index, helper columns dropped
file_df(df, f) ==
    LET mine == SelectSeq(df, LAMBDA r : r.file = f)
    IN  [k \in DOMAIN mine |-> StripHelpers(mine[k])]

\* "if not files: return": no transaction file under the ledger root
NoCsvFiles(fs) == \A f \in FileKeys : fs[f] = <<>>

\* the links cleared whether or not --clear-transfers is given
StartDfAlwaysClear(fs, clear) == ClearTransfers(full_df(fs))

\* full_df when matching starts (after the optional --clear-transfers)
StartDf(fs, clear) == IF clear THEN ClearTransfers(full_df(fs)) ELSE full_df(fs)

\* the files saved on every run
SavesChangesAlways(matches, clear) == TRUE

\* "if matches_found > 0 or args.clear_transfers": the files are saved
SavesChanges(matches, clear) == matches > 0 \/ clear

\* the loading loop with its "continue" left out: every file is loaded
LoadedAll(fs, skip) == fs

\* all_dfs: the files the loading loop keeps.  A file in skip raises in
\* read_csv or lacks a required column; it is in neither all_dfs nor
\* file_map
Loaded(fs, skip) == [f \in FileKeys |-> IF f \in skip THEN <<>> ELSE fs[f]]

\* the log step without "log_file.unlink()": an old log stays
SaveLogKeepStale(entries, old) == IF entries # <<>> THEN entries ELSE old

\* "3. Save Log": the log is written when there are entries, and removed
\* when there are none (old: the log found; <<>>: no log file)
SaveLog(entries, old) == IF entries # <<>> THEN entries ELSE <<>>

\* a run in which the files in skip cannot be loaded
link_transfers_skipping(clear, skip) ==
    IF NoCsvFiles(files) \/ NoCsvFiles(Loaded(files, skip))
    THEN UNCHANGED <<files, accounts, matched, amblog, run>>
    ELSE LET start == StartDf(Loaded(files, skip), clear)
             done == LinkGroups(start)
         IN  /\ amblog' = SaveLog(ambiguous_entries(start), amblog)
             /\ matched' = IF \E i \in DOMAIN done : done[i].tid # NoTid
                           THEN final_df(done)
                           ELSE matched
             /\ files' = IF SavesChanges(matches_found(start), clear)
                         THEN [f \in FileKeys |->
                                  IF f \in skip THEN files[f] ELSE file_df(done, f)]
                         ELSE files
             /\ UNCHANGED <<accounts, run>>

\* a run in which every file loads
link_transfers(clear) == link_transfers_skipping(clear, {})

(***************************************************************************)
(* save_transactions and run_normalization                                 *)
(***************************************************************************)
\* history: the operation just run and, for a reconciler run, its flag,
\* whether the operation before it was a reconciler run too, the matches it
\* counted ("Found and linked N new pair(s)"), whether some row went into
\* the run with a Transfer Id and came out with the same one, whether some
\* row went in with a Transfer Id and came out without, and whether the
\* run saved the files ("Saving changes to CSV files...")
OpRecord(op) ==
    [op |-> op, clear |-> FALSE, again |-> FALSE, matches |-> 0, kept |-> FALSE,
     cleared |-> FALSE, saved |-> FALSE]

KeptLink(fs, clear) ==
    LET done == LinkGroups(StartDf(fs, clear))
    IN  \E i \in DOMAIN done :
            /\ full_df(fs)[i].tid # NoTid
            /\ done[i].tid = full_df(fs)[i].tid

LostLink(fs, clear) ==
    LET done == LinkGroups(StartDf(fs, clear))
    IN  \E i \in DOMAIN done : full_df(fs)[i].tid # NoTid /\ done[i].tid = NoTid

LinkRecord(clear) ==
    [op |-> "link", clear |-> clear, again |-> last.op = "link",
     matches |-> IF NoCsvFiles(files) THEN 0 ELSE matches_found(StartDf(files, clear)),
     kept |-> ~NoCsvFiles(files) /\ KeptLink(files, clear),
     cleared |-> ~NoCsvFiles(files) /\ LostLink(files, clear),
     saved |-> /\ ~NoCsvFiles(files)
               /\ SavesChanges(matches_found(StartDf(files, clear)), clear)]

\* save_transactions of one bank's downloader: month files are overwritten,
\* then ensure_accounts_exist merges the batch's accounts into accounts.csv
save_transactions(bank, batch, inv) ==
    /\ files' = WriteMonths(files, bank, txn_dicts(batch, inv))
    /\ accounts' = [accounts EXCEPT ![bank] = ensure_accounts_exist(@, batch)]
    /\ UNCHANGED <<matched, amblog>>

\* the payee rules in force when the ledger is written and normalised
LedgerRules ==
    << [name |-> <<"P">>, keywords |-> << <<"a">> >>, regex |-> <<>>] >>

\* df['Payee Name'] = df['Description'].apply(normalize_payee)
NormalizeRow(r) == [r EXCEPT !.payee = normalize_payee(LedgerRules, r.desc)]

run_normalization ==
    /\ files' = [f \in FileKeys |-> [i \in DOMAIN files[f] |-> NormalizeRow(files[f][i])]]
    /\ UNCHANGED <<accounts, matched, amblog, run>>

(***************************************************************************)
(* The ledger's life: downloads of two banks, reconciler runs and payee    *)
(* normalisation, in any order, from an empty ledger.                      *)
(***************************************************************************)
LedgerDates == {"2024-03-01"}

\* descriptions and the payee the adapter stores: transaction 1 carries a
\* merchant name, from which its payee is derived instead of the description
DescOf(i) == IF i = 1 THEN <<"a">> ELSE <<"b">>
MerchantOf(i) == IF i = 1 THEN <<"b">> ELSE <<>>
AdapterPayee(i) ==
    IF MerchantOf(i) # <<>> THEN normalize_payee(LedgerRules, MerchantOf(i))
    ELSE normalize_payee(LedgerRules, DescOf(i))

\* the Transaction an adapter builds
Txn(i, d, m) ==
    [id |-> i, acct |-> AcctOf(i), date |-> d, amt |-> m, desc |-> DescOf(i),
     payee |-> AdapterPayee(i), num |-> <<>>]

LedgerTxns(b) == {Txn(i, d, m) : i \in IdsOf(b), d \in LedgerDates, m \in BankAmounts}

\* one download lists its transactions in id order and never holds two
\* different transactions under one id (two equal ones are a hash collision)
WellFormed(batch) ==
    \A i, j \in DOMAIN batch :
        /\ batch[i].id = batch[j].id => batch[i] = batch[j]
        /\ i < j => batch[i].id <= batch[j].id

Batches(T) == {b \in SeqsUpTo(T, MaxBatch) : WellFormed(b)}

\* what one run of a bank's downloader can hand to save_transactions
BankBatches == [b \in Banks |-> Batches(LedgerTxns(b))]

\* no downloader is running
Idle == [pc |-> "idle", bank |-> 0, cache |-> <<>>]

Init ==
    /\ files = NoFiles
    /\ accounts = [b \in Banks |-> <<>>]
    /\ matched = <<>>
    /\ amblog = <<>>
    /\ last = OpRecord("init")
    /\ run = Idle

\* a downloader run whose fetch_accounts returns no account: accounts.csv is
\* left to ensure_accounts_exist and accounts_cache stays empty
Download ==
    \E b \in Banks : \E batch \in BankBatches[b] :
        /\ save_transactions(b, batch, {})
        /\ last' = OpRecord("save")
        /\ UNCHANGED run

Reconcile ==
    \E clear \in BOOLEAN :
        /\ link_transfers(clear)
        /\ last' = LinkRecord(clear)

Normalize ==
    /\ run_normalization
    /\ last' = OpRecord("normalize")

Next == Download \/ Reconcile \/ Normalize

Spec == Init /\ [][Next]_vars

(***************************************************************************)
(* One reconciliation: link_transfers, run and run again, over a ledger    *)
(* freshly written by the two banks' downloaders (no row linked yet).      *)
(* Here the history also keeps the ledger the run read and what it         *)
(* reported: whether it returned early and the matches it counted.         *)
(***************************************************************************)
SnapIds(b) == IF b = 1 THEN {1, 2, 4} ELSE {3}
SnapDates == {"2024-03-01", "2024-03-15"}
SnapAmounts == {-2, -1, 0, 1, 2}

SnapTxns(b) == {Txn(i, d, m) : i \in SnapIds(b), d \in SnapDates, m \in SnapAmounts}

SnapBatches == [b \in Banks |-> Batches(SnapTxns(b))]

InitLink ==
    \E b1 \in SnapBatches[1] : \E b2 \in SnapBatches[2] :
        /\ files = WriteMonths(WriteMonths(NoFiles, 1, txn_dicts(b1, {})),
                               2, txn_dicts(b2, {}))
        /\ accounts = [b \in Banks |->
                          ensure_accounts_exist(<<>>, IF b = 1 THEN b1 ELSE b2)]
        /\ matched = <<>>
        /\ amblog = <<>>
        /\ last = [op |-> "save", clear |-> FALSE, early |-> FALSE, matches |-> 0,
                   pre |-> NoFiles]
        /\ run = Idle

RunLink ==
    \E clear \in BOOLEAN :
        /\ link_transfers(clear)
        /\ last' = [op |-> "link", clear |-> clear, early |-> NoCsvFiles(files),
                    matches |-> IF NoCsvFiles(files) THEN 0
                                ELSE matches_found(StartDf(files, clear)),
                    pre |-> files]

NextLink == RunLink

SpecLink == InitLink /\ [][NextLink]_vars

(***************************************************************************)
(* Properties of one reconciler run, stated over the ledger it read        *)
(* (last.pre) and the ledger and reports it left.                          *)
(***************************************************************************)
\* the rows of a ledger, each named by its file and its position in it
Cells(fs) == UNION {{<<f, i>> : i \in DOMAIN fs[f]} : f \in FileKeys}

Row(fs, c) == fs[c[1]][c[2]]

\* the rows that hold a Transfer Id
Linked(fs) == {c \in Cells(fs) : Row(fs, c).tid # NoTid}

\* a row the run considers: not linked when matching starts, dated, not zero
Candidate(fs, clear, c) ==
    /\ clear \/ Row(fs, c).tid = NoTid
    /\ PdDate(Row(fs, c).date) # NaT
    /\ Row(fs, c).amt # 0

SameDateAndSize(fs, c, d) ==
    /\ PdDate(Row(fs, c).date) = PdDate(Row(fs, d).date)
    /\ Abs(Row(fs, c).amt) = Abs(Row(fs, d).amt)

\* the (date, absolute amount) group of candidate c
GroupOf(fs, clear, c) ==
    {d \in Cells(fs) : Candidate(fs, clear, d) /\ SameDateAndSize(fs, c, d)}

PositiveSide(fs, G) == {c \in G : Row(fs, c).amt > 0}
NegativeSide(fs, G) == {c \in G : Row(fs, c).amt < 0}

\* <<n, p>>: a group of exactly one negative row n and one positive row p
\* on different accounts
TransferPairs(fs, clear) ==
    {np \in Cells(fs) \X Cells(fs) :
        /\ Candidate(fs, clear, np[1])
        /\ Row(fs, np[1]).amt < 0
        /\ Row(fs, np[2]).amt > 0
        /\ GroupOf(fs, clear, np[1]) = {np[1], np[2]}
        /\ Row(fs, np[1]).acct # Row(fs, np[2]).acct}

\* the report rows that pair source id s with target id t
ReportRows(s, t) == {k \in DOMAIN matched : matched[k].src_id = s /\ matched[k].tgt_id = t}

RanLink == last.op = "link" /\ ~last.early

\* C1: after a run, every group of one positive and one negative candidate
\* on different accounts is linked symmetrically (each row holds the other's
\* transaction id), the run counted one match per such group, and the
\* matched report holds exactly one row for the pair, the negative row as
\* source and the positive row as target, and none the other way round.
C1_PairLinkedAndReported ==
    RanLink =>
        /\ \A np \in TransferPairs(last.pre, last.clear) :
              LET n == Row(last.pre, np[1])
                  p == Row(last.pre, np[2])
              IN  /\ Row(files, np[1]).tid = p.id
                  /\ Row(files, np[2]).tid = n.id
                  /\ Cardinality(ReportRows(n.id, p.id)) = 1
                  /\ \A k \in ReportRows(n.id, p.id) :
                        matched[k] =
                            [src_acct |-> n.acct, src_id |-> n.id, src_date |-> n.date,
                             src_amt |-> n.amt, tgt_acct |-> p.acct, tgt_id |-> p.id,
                             tgt_date |-> p.date, tgt_amt |-> p.amt]
                  /\ ReportRows(p.id, n.id) = {}
        /\ last.matches = Cardinality(TransferPairs(last.pre, last.clear))

\* a run that linked a pair of rows held in two banks' files, next to a
\* third row of another amount
C1_Witness ==
    /\ RanLink
    /\ \E np \in TransferPairs(last.pre, last.clear) :
          /\ np[1][1] # np[2][1]
          /\ Row(files, np[1]).tid = Row(files, np[2]).id
          /\ Row(files, np[2]).tid = Row(files, np[1]).id
    /\ Cardinality(Cells(files)) = 3
    /\ Len(matched) = 1
    /\ last.matches = 1

\* the groups with both signs present and more than one row on a side
AmbiguousGroups(fs, clear) ==
    {G \in {GroupOf(fs, clear, c) : c \in {d \in Cells(fs) : Candidate(fs, clear, d)}} :
        /\ PositiveSide(fs, G) # {}
        /\ NegativeSide(fs, G) # {}
        /\ Cardinality(PositiveSide(fs, G)) > 1 \/ Cardinality(NegativeSide(fs, G)) > 1}

\* the log entries written for group G
LogEntries(fs, G) ==
    {k \in DOMAIN amblog :
        \E c \in G : /\ amblog[k].Date = PdDate(Row(fs, c).date)
                     /\ amblog[k].Amount = Abs(Row(fs, c).amt)}

IdsListed(ids, fs, S) ==
    /\ Len(ids) = Cardinality(S)
    /\ {ids[k] : k \in DOMAIN ids} = {Row(fs, c).id : c \in S}

\* C2: after a run, no row of an ambiguous group holds a Transfer Id, and
\* the ambiguous log holds exactly one entry for each such group, with its
\* date, absolute amount, the two counts and the transaction ids of each
\* side, and no entry for anything else.
C2_AmbiguousLoggedNotLinked ==
    RanLink =>
        /\ \A G \in AmbiguousGroups(last.pre, last.clear) :
              /\ \A c \in G : Row(files, c).tid = NoTid
              /\ Cardinality(LogEntries(last.pre, G)) = 1
              /\ \A k \in LogEntries(last.pre, G) :
                    /\ amblog[k].Pos_Count = Cardinality(PositiveSide(last.pre, G))
                    /\ amblog[k].Neg_Count = Cardinality(NegativeSide(last.pre, G))
                    /\ IdsListed(amblog[k].Pos_IDs, last.pre, PositiveSide(last.pre, G))
                    /\ IdsListed(amblog[k].Neg_IDs, last.pre, NegativeSide(last.pre, G))
        /\ Len(amblog) = Cardinality(AmbiguousGroups(last.pre, last.clear))

\* a run that met a group of two positive rows and one negative row
C2_Witness ==
    /\ RanLink
    /\ \E G \in AmbiguousGroups(last.pre, last.clear) :
          /\ Cardinality(PositiveSide(last.pre, G)) = 2
          /\ Cardinality(NegativeSide(last.pre, G)) = 1
    /\ Len(amblog) = 1

\* two rows of one account, of opposite sign, same date and same size
SameAccountOffsets(fs) ==
    {cd \in Cells(fs) \X Cells(fs) :
        /\ Row(fs, cd[1]).acct = Row(fs, cd[2]).acct
        /\ Row(fs, cd[1]).amt > 0
        /\ Row(fs, cd[2]).amt < 0
        /\ SameDateAndSize(fs, cd[1], cd[2])}

\* row c of the ledger is named, on the side of its sign, by a log entry
\* for its date and absolute amount
InAmbiguousLog(fs, c) ==
    \E k \in DOMAIN amblog :
        /\ amblog[k].Date = PdDate(Row(fs, c).date)
        /\ amblog[k].Amount = Abs(Row(fs, c).amt)
        /\ LET ids == IF Row(fs, c).amt > 0 THEN amblog[k].Pos_IDs ELSE amblog[k].Neg_IDs
           IN  \E j \in DOMAIN ids : ids[j] = Row(fs, c).id

NotLinkedTogether(c, d) ==
    /\ Row(files, c).tid # Row(files, d).id
    /\ Row(files, d).tid # Row(files, c).id

\* C3 as claimed: after a run, two opposite-sign rows of one account with
\* the same date and absolute amount are not linked to each other and
\* neither is named in the ambiguous log, whatever else the ledger holds.
C3_NeverLinkedNeverLogged ==
    RanLink =>
        \A cd \in SameAccountOffsets(last.pre) :
            /\ NotLinkedTogether(cd[1], cd[2])
            /\ ~InAmbiguousLog(last.pre, cd[1])
            /\ ~InAmbiguousLog(last.pre, cd[2])

\* C3 amended: after a run, two opposite-sign rows of one account with the
\* same date and absolute amount are not linked to each other, whatever
\* else the ledger holds, and they are not named in the ambiguous log when
\* no further candidate row shares their date and absolute amount.
C3_NeverLinkedLoggedOnlyInCrowd ==
    RanLink =>
        \A cd \in SameAccountOffsets(last.pre) :
            /\ NotLinkedTogether(cd[1], cd[2])
            /\ GroupOf(last.pre, last.clear, cd[1]) \subseteq {cd[1], cd[2]}
                  => /\ ~InAmbiguousLog(last.pre, cd[1])
                     /\ ~InAmbiguousLog(last.pre, cd[2])

\* a run over a same-account pair alone in its group, and nothing logged
C3_Witness ==
    /\ RanLink
    /\ \E cd \in SameAccountOffsets(last.pre) :
          /\ GroupOf(last.pre, last.clear, cd[1]) = {cd[1], cd[2]}
          /\ Row(files, cd[1]).tid = NoTid
          /\ Row(files, cd[2]).tid = NoTid
    /\ amblog = <<>>
    /\ Cardinality(Cells(files)) = 3

\* C16: after a run over a ledger without links, every row holding a
\* Transfer Id is paired with a row that holds its id in turn, has the same
\* parsed date and the opposite amount (so equal magnitude, opposite sign,
\* neither zero) and is on another account.
C16_LinkedPairsSound ==
    RanLink =>
        \A c \in Linked(files) :
            \E d \in Cells(files) :
                /\ Row(files, d).id = Row(files, c).tid
                /\ Row(files, d).tid = Row(files, c).id
                /\ PdDate(Row(files, d).date) = PdDate(Row(files, c).date)
                /\ PdDate(Row(files, c).date) # NaT
                /\ Row(files, d).amt = -Row(files, c).amt
                /\ Row(files, c).amt # 0
                /\ Row(files, d).acct # Row(files, c).acct

\* a run that linked a pair and left alone a row of the same magnitude on
\* a third account, dated otherwise
C16_Witness ==
    /\ RanLink
    /\ Cardinality(Linked(files)) = 2
    /\ \E c \in Linked(files) : \E e \in Cells(files) \ Linked(files) :
          /\ Abs(Row(files, e).amt) = Abs(Row(files, c).amt)
          /\ PdDate(Row(files, e).date) # PdDate(Row(files, c).date)
          /\ \A d \in Linked(files) : Row(files, d).acct # Row(files, e).acct

(***************************************************************************)
(* Properties of the ledger's life, stated over single steps of Spec.      *)
(***************************************************************************)
LinkStep(clear) == last'.op = "link" /\ last'.clear = clear

\* C4: when a reconciler run without --clear-transfers follows a reconciler
\* run directly (nothing written in between), it finds no group to link,
\* counts zero matches, leaves every month file (so every Transfer Id) as it
\* was and leaves the matched report as the first run left it.
C4_SecondRunChangesNothing ==
    [][(last.op = "link" /\ LinkStep(FALSE)) =>
          /\ TransferPairs(files, FALSE) = {}
          /\ last'.matches = 0
          /\ files' = files
          /\ matched' = matched]_vars

\* a second run in a row, over a ledger holding a linked pair and its report
C4_Witness ==
    /\ last.op = "link"
    /\ last.again
    /\ ~last.clear
    /\ last.matches = 0
    /\ last.kept
    /\ Len(matched) = 1
    /\ \E c, d \in Cells(files) :
          /\ Row(files, c).tid = Row(files, d).id
          /\ Row(files, d).tid = Row(files, c).id
          /\ Row(files, c).tid # NoTid

\* row c holds the id of row d, and the rows of c's date and absolute
\* amount are these two alone, of opposite sign and on different accounts
AloneWithPartner(fs, c, d) ==
    /\ Row(fs, c).tid = Row(fs, d).id
    /\ GroupOf(fs, TRUE, c) = {c, d}
    /\ (Row(fs, c).amt > 0) # (Row(fs, d).amt > 0)
    /\ Row(fs, c).acct # Row(fs, d).acct

\* C5 as claimed: a run with --clear-transfers leaves every row that held a
\* Transfer Id holding the same Transfer Id, in every ledger state.
C5_ClearRelinksIdentically ==
    [][LinkStep(TRUE) =>
          \A c \in Cells(files) :
              Row(files, c).tid # NoTid => Row(files', c).tid = Row(files, c).tid]_vars

\* C5 amended: a run with --clear-transfers leaves a row that held a
\* Transfer Id holding the same one when the rows of its date and absolute
\* amount are exactly the row and the row whose id it held, of opposite
\* sign and on different accounts.
C5_ClearRelinksLonePairs ==
    [][LinkStep(TRUE) =>
          \A c \in Cells(files) : \A d \in Cells(files) :
              (Row(files, c).tid # NoTid /\ AloneWithPartner(files, c, d))
                  => Row(files', c).tid = Row(files, c).tid]_vars

\* a run with --clear-transfers, directly after a run, that left a linked
\* pair as it found it
C5_Witness ==
    /\ last.op = "link"
    /\ last.clear
    /\ last.again
    /\ last.kept
    /\ last.matches = 1
    /\ \E c, d \in Cells(files) :
          /\ AloneWithPartner(files, c, d)
          /\ AloneWithPartner(files, d, c)

\* every field of a month-file row but its Transfer Id
SameButTransferId(r, q) == [r EXCEPT !.tid = NoTid] = [q EXCEPT !.tid = NoTid]

\* every field of a month-file row but its payee
SameButPayee(r, q) == [r EXCEPT !.payee = <<>>] = [q EXCEPT !.payee = <<>>]

C14_LinksSymmetricOneToOne ==
    /\ \A c \in Cells(files) :
          Row(files, c).tid # NoTid =>
              \E d \in Cells(files) :
                  /\ Row(files, d).id = Row(files, c).tid
                  /\ Row(files, d).tid = Row(files, c).id
    /\ \A c \in Cells(files) : \A d \in Cells(files) :
          (c # d /\ Row(files, c).tid # NoTid) => Row(files, c).tid # Row(files, d).tid

(***************************************************************************)
(* Downloader runs of one bank, step by step: BankDownloader.run fetches   *)
(* the accounts and, when it got any, saves them and caches them; then it  *)
(* downloads the transactions and saves them.  Transactions carry an       *)
(* 'Account Number' in their raw data.                                     *)
(***************************************************************************)
MaxFetched == 2             \* accounts one fetch_accounts returns

AcctBank == 1
InvertingBanks == {1}       \* banks configured with invert_credit_transactions

\* account numbers: none, masked, short (for account 1 its unique id), long
TxnNumbers == {<<>>, <<"*", "1">>, <<"1">>, <<"1", "2">>}
FetchedNumbers == {<<"*", "1">>, <<"1", "2">>}

AcctTxns ==
    {[Txn(i, "2024-03-01", 1) EXCEPT !.num = n] : i \in {1, 4}, n \in TxnNumbers}

AcctBatches == Batches(AcctTxns)

\* the Type an adapter can give an account, and the balances a bank reports
AcctTypes(a) == IF a \in Liabilities THEN LiabilityTypes ELSE {"Chequing", ""}
Balances == {-1, 0, 1}

FetchedAccounts ==
    UNION {{[id |-> a, num |-> n, type |-> t, bal |-> v] :
               n \in FetchedNumbers, t \in AcctTypes(a), v \in Balances} :
           a \in {AcctOf(i) : i \in {1, 4}}}

\* what fetch_accounts can return: each account once, in the bank's order
FetchedLists ==
    {l \in SeqsUpTo(FetchedAccounts, MaxFetched) :
        \A i, j \in DOMAIN l : i < j => l[i].id < l[j].id}

\* the accounts whose transactions save_transactions inverts
Inverted(r) ==
    IF r.bank \in InvertingBanks
    THEN {r.cache[k].id : k \in {j \in DOMAIN r.cache : is_liability(r.cache[j])}}
    ELSE {}

InitAcct ==
    /\ files = NoFiles
    /\ accounts = [b \in Banks |-> <<>>]
    /\ matched = <<>>
    /\ amblog = <<>>
    /\ last = [op |-> "init", given |-> <<>>]
    /\ run = Idle

\* run, up to "self.accounts_cache = {...}": the fetch returned accounts;
\* save_accounts changes the balances of the Account objects themselves,
\* and these objects go into accounts_cache.  The history keeps the list
\* as fetch_accounts returned it.
FetchAccounts ==
    /\ run.pc = "idle"
    /\ \E fetched \in FetchedLists \ {<<>>} :
          /\ accounts' = [accounts EXCEPT ![AcctBank] = save_accounts(fetched)]
          /\ run' = [pc |-> "fetched", bank |-> AcctBank, cache |-> save_accounts(fetched)]
          /\ last' = [op |-> "fetch", given |-> fetched]
    /\ UNCHANGED <<files, matched, amblog>>

\* run, the same stretch: the fetch returned nothing or raised
FetchNothing ==
    /\ run.pc = "idle"
    /\ run' = [pc |-> "fetched", bank |-> AcctBank, cache |-> <<>>]
    /\ last' = [op |-> "nofetch", given |-> <<>>]
    /\ UNCHANGED <<files, accounts, matched, amblog>>

\* run, from download_transactions on
SaveBatch ==
    /\ run.pc = "fetched"
    /\ \E batch \in AcctBatches : save_transactions(run.bank, batch, Inverted(run))
    /\ last' = [op |-> "save", given |-> <<>>]
    /\ run' = Idle

NextAcct == FetchAccounts \/ FetchNothing \/ SaveBatch

SpecAcct == InitAcct /\ [][NextAcct]_vars

\* every row of a bank's accounts.csv is still there after the step, and
\* is as it was unless _is_better_account_number prefers its new number
RowsKeptOrBettered(b) ==
    \A k \in DOMAIN accounts[b] : \E j \in DOMAIN accounts'[b] :
        /\ accounts'[b][j].id = accounts[b][k].id
        /\ \/ accounts'[b][j] = accounts[b][k]
           \/ is_better_account_number(accounts[b][k].num, accounts'[b][j].num,
                                       AcctIdStr(accounts[b][k].id))

\* C7 as claimed: in every step of a downloader run (save_accounts of the
\* fetched accounts, save_transactions with ensure_accounts_exist) no row
\* of accounts.csv is removed, and a row changes only to a number that
\* _is_better_account_number judges better than the stored one.
C7_NeverRemovedOnlyBettered ==
    [][\A b \in Banks : RowsKeptOrBettered(b)]_vars

\* the Current Balance the claim expects in accounts.csv for an account
SignedBalance(acc) ==
    IF acc.type \in {"Credit Card", "Line of Credit", "Mortgage", "Loan"} /\ acc.bal > 0
    THEN -acc.bal
    ELSE acc.bal

\* C11: in every step of a downloader run, each row of the accounts.csv it
\* leaves whose Type is Credit Card, Line of Credit, Mortgage or Loan has a
\* Current Balance <= 0; the file save_accounts writes for the fetched
\* accounts holds, per account, the fetched balance negated when the
\* account is a liability and the balance is positive, and the fetched
\* balance itself otherwise; and when save_transactions rewrites the file
\* through ensure_accounts_exist (save_accounts once more), every account
\* already in it keeps its balance.
C11_LiabilityBalanceNeverPositive ==
    [][/\ \A b \in Banks : \A k \in DOMAIN accounts'[b] :
              accounts'[b][k].type \in {"Credit Card", "Line of Credit", "Mortgage", "Loan"}
                  => accounts'[b][k].bal <= 0
       /\ last'.op = "fetch" =>
              /\ Len(accounts'[AcctBank]) = Len(last'.given)
              /\ \A k \in DOMAIN last'.given :
                    /\ accounts'[AcctBank][k].id = last'.given[k].id
                    /\ accounts'[AcctBank][k].type = last'.given[k].type
                    /\ accounts'[AcctBank][k].bal = SignedBalance(last'.given[k])
       /\ last'.op = "save" =>
              \A b \in Banks : \A k \in DOMAIN accounts[b] : \A j \in DOMAIN accounts'[b] :
                  accounts'[b][j].id = accounts[b][k].id
                      => accounts'[b][j].bal = accounts[b][k].bal]_vars

\* after a save that replaced the masked number of a credit card (so
\* accounts.csv went through save_accounts a second time): the card's
\* balance is negative, the chequing account's balance is positive
C11_Witness ==
    /\ last.op = "save"
    /\ Len(accounts[AcctBank]) = 2
    /\ accounts[AcctBank][1].type = "Credit Card"
    /\ accounts[AcctBank][1].num = <<"1">>
    /\ accounts[AcctBank][1].bal = -1
    /\ accounts[AcctBank][2].type = "Chequing"
    /\ accounts[AcctBank][2].bal = 1

(***************************************************************************)
(* Saves of one bank's batches over two months: save_transactions called   *)
(* by run after run, with the account of the transactions inverted or not  *)
(* (a liability in accounts_cache under invert_credit_transactions).  The  *)
(* history keeps the batch saved and whether the save before it was of the *)
(* same batch under the same inversion.                                    *)
(***************************************************************************)
SaveBank == 1
SaveDates == {"2024-03-01", "2024-04-01", ""}

SaveTxns == {Txn(i, d, 1) : i \in IdsOf(SaveBank), d \in SaveDates}

SaveBatches == Batches(SaveTxns)

InitSave ==
    /\ files = NoFiles
    /\ accounts = [b \in Banks |-> <<>>]
    /\ matched = <<>>
    /\ amblog = <<>>
    /\ last = [op |-> "init", batch |-> <<>>, inv |-> {}, again |-> FALSE]
    /\ run = Idle

SaveRun ==
    \E batch \in SaveBatches : \E inv \in SUBSET (AcctsOf(SaveBank) \cap Liabilities) :
        /\ save_transactions(SaveBank, batch, inv)
        /\ last' = [op |-> "save", batch |-> batch, inv |-> inv,
                    again |-> last.op = "save" /\ last.batch = batch /\ last.inv = inv]
        /\ UNCHANGED run

NextSave == SaveRun

SpecSave == InitSave /\ [][NextSave]_vars

\* the rows of the batch whose Date starts with the month's seven characters
\* (to each its place in the batch)
MonthGroup(batch, month) ==
    {k \in DOMAIN batch : DateLen(batch[k].date) >= 7 /\ Prefix7(batch[k].date) = month}

\* the month file holds the group's transactions and nothing else, in batch
\* order, with the amounts the save gives them
HoldsGroup(rows, batch, inv, month) ==
    /\ Len(rows) = Cardinality(MonthGroup(batch, month))
    /\ \A n \in DOMAIN rows :
          \E k \in MonthGroup(batch, month) :
              /\ Cardinality({j \in MonthGroup(batch, month) : j <= k}) = n
              /\ rows[n].id = batch[k].id
              /\ rows[n].date = batch[k].date
              /\ rows[n].amt = IF batch[k].acct \in inv THEN -batch[k].amt ELSE batch[k].amt
              /\ rows[n].tid = NoTid

IdDates == {<<"1">>, <<"1", "|">>}
IdAmounts == {-1, 0, 1, 10}
IdDescriptions == {<<>>, <<"a">>, <<"|", "a">>, <<"a", "|">>}
IdAccounts == {<<>>, <<"1">>, <<"|", "1">>}

IdArgs == IdDates \X IdAmounts \X IdDescriptions \X IdAccounts

IdCall(args) ==
    [args |-> args, id |-> generate_transaction_id(args[1], args[2], args[3], args[4])]

InitId ==
    /\ files = NoFiles
    /\ accounts = [b \in Banks |-> <<>>]
    /\ matched = <<>>
    /\ amblog = <<>>
    /\ run = Idle
    /\ \E args \in IdArgs : last = [op |-> "id", first |-> IdCall(args), second |-> IdCall(args)]

\* one more call: the call before it is kept for comparison
CallId ==
    /\ \E args \in IdArgs :
          last' = [op |-> "id", first |-> last.second, second |-> IdCall(args)]
    /\ UNCHANGED <<files, accounts, matched, amblog, run>>

NextId == CallId

SpecId == InitId /\ [][NextId]_vars

\* the number of arguments in which two calls differ
ArgsChanged(x, y) == Cardinality({k \in 1..4 : x[k] # y[k]})

\* C9: two calls with the same four arguments return the same id, whatever
\* was called before, and two calls that differ in exactly one argument
\* return different ids.
C9_SameArgsSameIdOneChangeNewId ==
    /\ ArgsChanged(last.first.args, last.second.args) = 0 => last.first.id = last.second.id
    /\ ArgsChanged(last.first.args, last.second.args) = 1 => last.first.id # last.second.id

\* two calls that differ in the description only, one of them holding the
\* delimiter, after a call with other arguments
C9_Witness ==
    /\ ArgsChanged(last.first.args, last.second.args) = 1
    /\ last.first.args[3] = <<"a">>
    /\ last.second.args[3] = <<"a", "|">>
    /\ last.first.id # last.second.id

(***************************************************************************)
(* normalize_payee, applied to a description under a rule list.            *)
(***************************************************************************)
MaxRules == 2               \* rules in the list

PayeeRules ==
    { [name |-> <<"P">>, keywords |-> << <<"a">> >>, regex |-> <<>>],
      [name |-> <<"Q">>, keywords |-> <<>>, regex |-> <<[kind |-> "lit", text |-> <<"B">>]>>],
      [name |-> <<"R">>, keywords |-> << <<"x">>, <<"A", "b">> >>,
       regex |-> <<[kind |-> "start", text |-> <<"b">>]>>],
      [name |-> <<"S">>, keywords |-> <<>>,
       regex |-> <<[kind |-> "bad", text |-> <<"(">>], [kind |-> "lit", text |-> <<"b">>]>>],
      [name |-> <<"T">>, keywords |-> <<>>, regex |-> <<>>] }

PayeeInputs ==
    { <<>>, <<" ">>, <<"a">>, <<"B">>, <<"c">>, <<"A", "b">>, <<"b", "a">>,
      <<" ", "a", " ", " ", "c", " ">>, <<"R", "B", "C", " ", "b">>,
      <<"a", "m", "e", "x", " ", "c">> }

InitPayee ==
    /\ files = NoFiles
    /\ accounts = [b \in Banks |-> <<>>]
    /\ matched = <<>>
    /\ amblog = <<>>
    /\ run = Idle
    /\ \E rules \in SeqsUpTo(PayeeRules, MaxRules) : \E raw \in PayeeInputs :
          last = [op |-> "rules", rules |-> rules, raw |-> raw, payee |-> <<>>]

CallNormalizePayee ==
    /\ last.op = "rules"
    /\ last' = [last EXCEPT !.op = "payee",
                            !.payee = normalize_payee(last.rules, last.raw)]
    /\ UNCHANGED <<files, accounts, matched, amblog, run>>

NextPayee == CallNormalizePayee

SpecPayee == InitPayee /\ [][NextPayee]_vars

\* k occurs in s at position i, letter case ignored
OccursAt(k, s, i) ==
    /\ i + Len(k) - 1 <= Len(s)
    /\ \A j \in 1..Len(k) : Lower(k[j]) = Lower(s[i + j - 1])

\* the rule has a keyword occurring in the text, or a regex matching it
RuleMatches(rule, text) ==
    \/ \E n \in DOMAIN rule.keywords :
          \E i \in 1..(Len(text) + 1) : OccursAt(rule.keywords[n], text, i)
    \/ \E n \in DOMAIN rule.regex :
          \/ /\ rule.regex[n].kind = "lit"
             /\ \E i \in 1..(Len(text) + 1) : OccursAt(rule.regex[n].text, text, i)
          \/ /\ rule.regex[n].kind = "start"
             /\ OccursAt(rule.regex[n].text, text, 1)

\* C10: for a non-empty input the result is the name of the first rule of
\* the list that matches the cleaned description, never the name of a rule
\* behind it, and clean_description(input) when no rule of the list matches.
C10_FirstMatchWins ==
    (last.op = "payee" /\ last.raw # <<>>) =>
        LET cleaned == clean_description(last.raw)
            matching == {k \in DOMAIN last.rules : RuleMatches(last.rules[k], cleaned)}
        IN  /\ \A k \in matching :
                  (\A j \in matching : k <= j) => last.payee = last.rules[k].name
            /\ matching = {} => last.payee = cleaned

\* both rules of the list match the cleaned description, the second one
\* through the pattern behind one that does not compile; the first is named
C10_Witness ==
    /\ last.op = "payee"
    /\ Len(last.rules) = 2
    /\ last.rules[2].name = <<"S">>
    /\ \A k \in DOMAIN last.rules :
          RuleMatches(last.rules[k], clean_description(last.raw))
    /\ last.raw = <<"R", "B", "C", " ", "b">>
    /\ last.payee = <<"Q">>

(***************************************************************************)
(* CSVWriter.write: the header it gives a file.  A row is a dict: for each *)
(* key, whether the dict has it and the value it holds, None or the string *)
(* str() makes of the value.  The keys of all rows are collected in a      *)
(* Python set, whose iteration order is not fixed: it is an input of the   *)
(* call.                                                                   *)
(***************************************************************************)
MaxRows == 2                \* rows handed to one write

None == [none |-> TRUE, s |-> <<>>]
Str(s) == [none |-> FALSE, s |-> s]

Missing == [has |-> FALSE, val |-> None]
Holds(v) == [has |-> TRUE, val |-> v]

\* the keys in the order sorted() gives them
KeysSorted == <<"Account Number", "Amount", "Merchant", "Notes">>
CsvKeys == {KeysSorted[k] : k \in DOMAIN KeysSorted}

\* the fieldnames argument: a model's CSV_FIELDS, or none given
RequiredFields == <<"Amount", "Notes">>
FieldnamesArgs == {RequiredFields, <<>>}

\* what a dict can hold under a key
KeyValues(k) ==
    CASE k = "Amount" -> {Missing, Holds(Str(<<"1">>)), Holds(Str(<<"N", "a", "N">>))}
      [] k = "Notes" -> {Holds(None), Holds(Str(<<>>)), Holds(Str(<<"x">>))}
      [] k = "Account Number" -> {Missing, Holds(Str(<<" ">>)), Holds(Str(<<"1">>))}
      [] k = "Merchant" -> {Missing, Holds(Str(<<" ", "n", "a", "n">>)), Holds(Str(<<"x">>))}

CsvDicts ==
    {d \in [CsvKeys -> UNION {KeyValues(k) : k \in CsvKeys}] :
        \A k \in CsvKeys : d[k] \in KeyValues(k)}

\* d.keys()
keys(d) == {k \in CsvKeys : d[k].has}

\* the orders in which a set of the keys can be iterated
KeyOrders ==
    {q \in [1..Cardinality(CsvKeys) -> CsvKeys] : \A i, j \in DOMAIN q : i # j => q[i] # q[j]}

InSeq(x, q) == \E i \in DOMAIN q : q[i] = x

\* all_keys = set().union(*(d.keys() for d in transactions))
all_keys(transactions) == UNION {keys(transactions[i]) : i \in DOMAIN transactions}

\* val is not None, and str(val).strip() is neither "" nor "nan" in lower case
IsActiveValue(val) ==
    /\ ~val.none
    /\ Strip(val.s) # <<>>
    /\ LowerStr(Strip(val.s)) # <<"n", "a", "n">>

active_keys(transactions) ==
    {key \in all_keys(transactions) :
        \E i \in DOMAIN transactions :
            transactions[i][key].has /\ IsActiveValue(transactions[i][key].val)}

\* final_fieldnames with the fieldnames argument kept whole
final_fieldnamesKeepRequired(transactions, fieldnames, order) ==
    IF fieldnames # <<>>
    THEN fieldnames \o
         SelectSeq(order, LAMBDA k : /\ k \in all_keys(transactions)
                                     /\ ~InSeq(k, fieldnames)
                                     /\ k \in active_keys(transactions))
    ELSE SelectSeq(KeysSorted, LAMBDA k : k \in active_keys(transactions))

\* final_fieldnames: the header DictWriter.writeheader writes; order is the
\* order in which "for k in all_keys" meets the keys
final_fieldnames(transactions, fieldnames, order) ==
    IF fieldnames # <<>>
    THEN SelectSeq(fieldnames, LAMBDA k : k \in active_keys(transactions)) \o
         SelectSeq(order, LAMBDA k : /\ k \in all_keys(transactions)
                                     /\ ~InSeq(k, fieldnames)
                                     /\ k \in active_keys(transactions))
    ELSE SelectSeq(KeysSorted, LAMBDA k : k \in active_keys(transactions))

CsvBatches == SeqsUpTo(CsvDicts, MaxRows)

InitCsv ==
    /\ files = NoFiles
    /\ accounts = [b \in Banks |-> <<>>]
    /\ matched = <<>>
    /\ amblog = <<>>
    /\ run = Idle
    /\ \E transactions \in CsvBatches : \E fieldnames \in FieldnamesArgs :
          last = [op |-> "rows", transactions |-> transactions, fieldnames |-> fieldnames,
                  written |-> FALSE, header |-> <<>>]

\* write(transactions, filename, fieldnames): nothing is written for an
\* empty list; otherwise the file gets the header and the rows
Write ==
    /\ last.op = "rows"
    /\ \E order \in KeyOrders :
          last' = [last EXCEPT
                      !.op = "write",
                      !.written = last.transactions # <<>>,
                      !.header = IF last.transactions = <<>> THEN <<>>
                                 ELSE final_fieldnames(last.transactions,
                                                       last.fieldnames, order)]
    /\ UNCHANGED <<files, accounts, matched, amblog, run>>

NextCsv == Write

SpecCsv == InitCsv /\ [][NextCsv]_vars

\* value v counts as a value: not None and, as a string without the
\* whitespace around it, neither empty nor "nan" in any letter case
CountsAsValue(v) ==
    /\ ~v.none
    /\ \E i \in DOMAIN v.s : v.s[i] # " "
    /\ LET core == SelectSeq(v.s, LAMBDA c : c # " ")
       IN  ~(Len(core) = 3 /\ core[1] \in {"n", "N"} /\ core[2] \in {"a", "A"}
                            /\ core[3] \in {"n", "N"})

NumberStrings ==
    { <<>>, <<" ">>, <<" ", " ", " ">>, <<"1">>, <<"1", "2">>, <<"1", "2", "3">>,
      <<"*", "1">>, <<"*", "*", "1">> }
UniqueIds == { <<>>, <<"1">>, <<"1", "2">>, <<"*", "1">> }

InitNumber ==
    /\ files = NoFiles
    /\ accounts = [b \in Banks |-> <<>>]
    /\ matched = <<>>
    /\ amblog = <<>>
    /\ run = Idle
    /\ \E existing \in NumberStrings : \E new \in NumberStrings : \E unique_id \in UniqueIds :
          last = [op |-> "numbers", existing |-> existing, new |-> new,
                  unique_id |-> unique_id, better |-> FALSE]

CallIsBetter ==
    /\ last.op = "numbers"
    /\ last' = [last EXCEPT
                    !.op = "better",
                    !.better = is_better_account_number(last.existing, last.new,
                                                        last.unique_id)]
    /\ UNCHANGED <<files, accounts, matched, amblog, run>>

NextNumber == CallIsBetter

SpecNumber == InitNumber /\ [][NextNumber]_vars

\* empty, or nothing but whitespace
Empty(s) == \A i \in DOMAIN s : s[i] = " "
HasMask(s) == \E i \in DOMAIN s : s[i] = "*"

\* the decision list as claimed
ClaimedList(existing, new, unique_id) ==
    IF Empty(existing) /\ ~Empty(new) THEN TRUE
    ELSE IF existing = unique_id THEN FALSE
    ELSE IF HasMask(existing) /\ ~HasMask(new) THEN TRUE
    ELSE IF ~HasMask(existing) /\ ~HasMask(new) /\ Len(new) > Len(existing) THEN TRUE
    ELSE FALSE

\* the decision list with the rule for an empty new number in front
AmendedList(existing, new, unique_id) ==
    IF Empty(new) THEN FALSE
    ELSE ClaimedList(existing, new, unique_id)

RelinkTxns(b) ==
    IF b = 1
    THEN {Txn(1, "2024-03-01", -1), Txn(2, "2024-03-01", -1), Txn(4, "2024-03-01", 1)}
    ELSE {Txn(3, "2024-03-01", 1)}

RelinkBatches == [b \in Banks |-> Batches(RelinkTxns(b))]

DownloadAgain ==
    \E b \in Banks : \E batch \in RelinkBatches[b] :
        /\ save_transactions(b, batch, {})
        /\ last' = OpRecord("save")
        /\ UNCHANGED run

NextRelink == DownloadAgain \/ Reconcile

SpecRelink == Init /\ [][NextRelink]_vars

\* C15: in a run without --clear-transfers, every row that holds a Transfer
\* Id when the run loads the ledger is the same row, with the same Transfer
\* Id, when the run ends; it is in no candidate group: the run links every
\* group of one positive and one negative unlinked row on different
\* accounts and counts one match for each, whatever linked rows share the
\* group's date and amount, and the counts of every log entry are those of
\* the unlinked rows alone; and it is nobody's partner: a row the run links
\* gets the id of an unlinked row of its group.
C15_LinkedRowsFrozen ==
    [][LinkStep(FALSE) =>
          /\ \A c \in Linked(files) : Row(files', c) = Row(files, c)
          /\ \A np \in TransferPairs(files, FALSE) :
                /\ Row(files', np[1]).tid = Row(files, np[2]).id
                /\ Row(files', np[2]).tid = Row(files, np[1]).id
          /\ last'.matches = Cardinality(TransferPairs(files, FALSE))
          /\ \A k \in DOMAIN amblog' :
                LET G == {c \in Cells(files) \ Linked(files) :
                             /\ PdDate(Row(files, c).date) = amblog'[k].Date
                             /\ Abs(Row(files, c).amt) = amblog'[k].Amount}
                IN  /\ amblog'[k].Pos_Count = Cardinality(PositiveSide(files, G))
                    /\ amblog'[k].Neg_Count = Cardinality(NegativeSide(files, G))
          /\ \A d \in Cells(files) \ Linked(files) :
                Row(files', d).tid # NoTid =>
                    \E e \in GroupOf(files, FALSE, d) \ {d} :
                        Row(files, e).id = Row(files', d).tid]_vars

\* after a run without --clear-transfers that linked a new pair and kept a
\* link of an earlier run on a row of the same date and amount
C15_Witness ==
    /\ last.op = "link"
    /\ ~last.clear
    /\ last.kept
    /\ last.matches = 1
    /\ \E c, d, e \in Linked(files) :
          /\ Cardinality({c, d, e}) = 3
          /\ SameDateAndSize(files, c, d)
          /\ SameDateAndSize(files, c, e)
          /\ Row(files, c).tid = Row(files, d).id
          /\ Row(files, d).tid = Row(files, c).id
          /\ Row(files, e).tid \notin {Row(files, c).id, Row(files, d).id}

\* C17: a reconciler run leaves in every file the rows it held, in their
\* order, none added, dropped, duplicated or moved, each the same but for
\* its Transfer Id; and what the run changed is in the files afterwards,
\* whichever file a changed row is in: the two rows of every pair the run
\* links hold each other's id, and in a run with --clear-transfers every
\* row that held a Transfer Id and is in no such pair holds none.
C17_RewriteKeepsRows ==
    [][last'.op = "link" =>
          /\ \A f \in FileKeys :
                /\ Len(files'[f]) = Len(files[f])
                /\ \A i \in DOMAIN files[f] :
                      [files'[f][i] EXCEPT !.tid = NoTid] = [files[f][i] EXCEPT !.tid = NoTid]
          /\ \A np \in TransferPairs(files, last'.clear) :
                /\ Row(files', np[1]).tid = Row(files, np[2]).id
                /\ Row(files', np[2]).tid = Row(files, np[1]).id
          /\ last'.clear =>
                \A c \in Linked(files) :
                    (\A np \in TransferPairs(files, TRUE) : c \notin {np[1], np[2]})
                        => Row(files', c).tid = NoTid]_vars

\* after a run with --clear-transfers that found no pair (the three rows
\* form one ambiguous group) and removed the link a row of bank 2 held:
\* the files are rewritten for the cleared link alone
C17_Witness ==
    /\ last.op = "link"
    /\ last.clear
    /\ last.cleared
    /\ last.matches = 0
    /\ Len(files[<<1, "2024-03">>]) = 2
    /\ Len(files[<<2, "2024-03">>]) = 1
    /\ Linked(files) = {}
    /\ Len(amblog) = 1

\* C18: a run without --clear-transfers that has no pair to link (no group
\* of one positive and one negative unlinked row on different accounts)
\* does not save the files, and every month file is as it was.
C18_NoMatchNoClearNoWrite ==
    [][(LinkStep(FALSE) /\ TransferPairs(files, FALSE) = {}) =>
          /\ ~last'.saved
          /\ files' = files]_vars

\* after a first run without --clear-transfers over a ledger holding a row
\* with a link gone stale and rows without partner: nothing matched,
\* nothing saved
C18_Witness ==
    /\ last.op = "link"
    /\ ~last.clear
    /\ ~last.again
    /\ last.matches = 0
    /\ last.kept
    /\ ~last.saved
    /\ Cardinality(Linked(files)) = 1
    /\ Cardinality(Cells(files)) = 3

(***************************************************************************)
(* One reconciliation over a ledger that also holds rows link_transfers    *)
(* cannot use: an Amount of zero, an Amount that is no number, a Date that *)
(* pd.to_datetime cannot parse.                                            *)
(***************************************************************************)
SelectDates == {"2024-03-01", "2024-03-99"}
SelectAmounts == {-1, 0, 1, NaN}

SelectTxns(b) ==
    {Txn(i, d, m) : i \in (IF b = 1 THEN {1, 4} ELSE {3}), d \in SelectDates,
                    m \in SelectAmounts}

SelectBatches == [b \in Banks |-> Batches(SelectTxns(b))]

InitSelect ==
    \E b1 \in SelectBatches[1] : \E b2 \in SelectBatches[2] :
        /\ files = WriteMonths(WriteMonths(NoFiles, 1, txn_dicts(b1, {})),
                               2, txn_dicts(b2, {}))
        /\ accounts = [b \in Banks |->
                          ensure_accounts_exist(<<>>, IF b = 1 THEN b1 ELSE b2)]
        /\ matched = <<>>
        /\ amblog = <<>>
        /\ last = [op |-> "save", clear |-> FALSE, early |-> FALSE, matches |-> 0,
                   pre |-> NoFiles]
        /\ run = Idle

NextSelect == RunLink

SpecSelect == InitSelect /\ [][NextSelect]_vars

\* a row link_transfers cannot use
Unusable(r) == r.amt = 0 \/ r.amt = NaN \/ PdDate(r.date) = NaT

\* the usable rows of a date and magnitude that are not linked when
\* matching starts
UsableOf(fs, clear, date, size) ==
    {c \in Cells(fs) :
        /\ ~Unusable(Row(fs, c))
        /\ clear \/ Row(fs, c).tid = NoTid
        /\ PdDate(Row(fs, c).date) = date
        /\ Abs(Row(fs, c).amt) = size}

\* C19: after a run, a row whose Amount is zero or no number, or whose
\* Date does not parse, holds no Transfer Id, no row holds its id as
\* Transfer Id, and no entry of the ambiguous log counts or names it: the
\* counts of every entry are those of the usable rows of its date and
\* magnitude.
C19_UnusableRowsLeftOut ==
    RanLink =>
        /\ \A c \in Cells(last.pre) :
              Unusable(Row(last.pre, c)) =>
                  /\ Row(files, c).tid = NoTid
                  /\ \A d \in Cells(files) : Row(files, d).tid # Row(last.pre, c).id
                  /\ \A k \in DOMAIN amblog :
                        \A j \in DOMAIN amblog[k].Pos_IDs \cup DOMAIN amblog[k].Neg_IDs :
                            /\ j \in DOMAIN amblog[k].Pos_IDs
                                  => amblog[k].Pos_IDs[j] # Row(last.pre, c).id
                            /\ j \in DOMAIN amblog[k].Neg_IDs
                                  => amblog[k].Neg_IDs[j] # Row(last.pre, c).id
        /\ \A k \in DOMAIN amblog :
              LET G == UsableOf(last.pre, last.clear, amblog[k].Date, amblog[k].Amount)
              IN  /\ amblog[k].Pos_Count = Cardinality({c \in G : Row(last.pre, c).amt > 0})
                  /\ amblog[k].Neg_Count = Cardinality({c \in G : Row(last.pre, c).amt < 0})

\* a run that linked a pair of two banks next to a row of the same date
\* whose Amount is no number
C19_Witness ==
    /\ RanLink
    /\ last.matches = 1
    /\ Cardinality(Linked(files)) = 2
    /\ \E c \in Cells(files) : \E d \in Linked(files) :
          /\ Row(files, c).amt = NaN
          /\ Row(files, c).date = Row(files, d).date
          /\ Row(files, c).tid = NoTid
          /\ d[1] # c[1]

(***************************************************************************)
(* Downloads and reconciler runs in turn, where a run may find some of the *)
(* files unreadable or without a required column.  The history of a run    *)
(* keeps its flag, the files it skipped and the matches it counted.        *)
(***************************************************************************)
SkipSets(fs) == SUBSET {f \in FileKeys : fs[f] # <<>>}

SkipRecord(clear, skip) ==
    [op |-> "link", clear |-> clear, skip |-> skip,
     matches |-> IF NoCsvFiles(Loaded(files, skip)) THEN 0
                 ELSE matches_found(StartDf(Loaded(files, skip), clear))]

DownloadSkip ==
    \E b \in Banks : \E batch \in RelinkBatches[b] :
        /\ save_transactions(b, batch, {})
        /\ last' = [op |-> "save", clear |-> FALSE, skip |-> {}, matches |-> 0]
        /\ UNCHANGED run

ReconcileSkipping ==
    \E clear \in BOOLEAN : \E skip \in SkipSets(files) :
        /\ link_transfers_skipping(clear, skip)
        /\ last' = SkipRecord(clear, skip)

InitSkip ==
    /\ files = NoFiles
    /\ accounts = [b \in Banks |-> <<>>]
    /\ matched = <<>>
    /\ amblog = <<>>
    /\ last = [op |-> "init", clear |-> FALSE, skip |-> {}, matches |-> 0]
    /\ run = Idle

NextSkip == DownloadSkip \/ ReconcileSkipping

SpecSkip == InitSkip /\ [][NextSkip]_vars

\* the ledger without the files a run skipped
Without(fs, skip) == [f \in FileKeys |-> IF f \in skip THEN <<>> ELSE fs[f]]

EditedIds(b) == IF b = 1 THEN {1, 2, 4} ELSE {3}
EditedAmounts == {-1, 1, 2}

\* the Transfer Id a row can hold: none, or the id of a row of the other bank
EditedTids(i) == CASE i \in {1, 2} -> {NoTid, 3} [] i = 3 -> {NoTid, 1} [] OTHER -> {NoTid}

\* a row of a month file as read_csv finds it
EditedRows(b) ==
    UNION {{[to_csv_row(Txn(i, "2024-03-01", m)) EXCEPT !.tid = t] :
               m \in EditedAmounts, t \in EditedTids(i)} : i \in EditedIds(b)}

\* a bank's month file: each transaction at most once, in id order
EditedFiles(b) ==
    {rows \in SeqsUpTo(EditedRows(b), Cardinality(EditedIds(b))) :
        \A j, k \in DOMAIN rows : j < k => rows[j].id < rows[k].id}

InitEdited ==
    \E rows1 \in EditedFiles(1) : \E rows2 \in EditedFiles(2) :
        /\ files = WriteMonths(WriteMonths(NoFiles, 1, rows1), 2, rows2)
        /\ accounts = [b \in Banks |-> <<>>]
        /\ matched = <<>>
        /\ amblog = <<>>
        /\ last = [op |-> "save", clear |-> FALSE, early |-> FALSE, matches |-> 0,
                   pre |-> NoFiles]
        /\ run = Idle

NextEdited == RunLink

SpecEdited == InitEdited /\ [][NextEdited]_vars

\* row c holds the id of row d, and their amounts do not cancel
InconsistentLink(fs, c, d) ==
    /\ c # d
    /\ Row(fs, c).tid # NoTid
    /\ Row(fs, c).tid = Row(fs, d).id
    /\ Abs(Row(fs, c).amt + Row(fs, d).amt) * 100 > 1

\* C21: after a run without --clear-transfers, for every row that held the
\* id of a row whose amount does not cancel its own (the sum differs from
\* zero by more than 0.01), the matched report holds no row for the two,
\* whichever is taken as source, the row holds the Transfer Id it held, and
\* so does the other row when it held one.
C21_InconsistentLinkKeptNotReported ==
    (RanLink /\ ~last.clear) =>
        \A c \in Cells(last.pre) : \A d \in Cells(last.pre) :
            InconsistentLink(last.pre, c, d) =>
                /\ ReportRows(Row(last.pre, c).id, Row(last.pre, d).id) = {}
                /\ ReportRows(Row(last.pre, d).id, Row(last.pre, c).id) = {}
                /\ Row(files, c).tid = Row(last.pre, c).tid
                /\ Row(last.pre, d).tid # NoTid
                      => Row(files, d).tid = Row(last.pre, d).tid

\* a run that linked and reported a new pair, and so rewrote the files,
\* over a ledger holding two rows linked to each other whose amounts do not
\* cancel: these still hold each other's id
C21_Witness ==
    /\ RanLink
    /\ ~last.clear
    /\ last.matches = 1
    /\ Len(matched) = 1
    /\ \E c, d \in Cells(files) :
          /\ InconsistentLink(files, c, d)
          /\ InconsistentLink(files, d, c)
          /\ InconsistentLink(last.pre, c, d)
          /\ ReportRows(Row(files, c).id, Row(files, d).id) = {}

\* rows c and d hold each other's id and their amounts cancel, c negative
CancellingPair(fs, c, d) ==
    /\ Row(fs, c).tid # NoTid
    /\ Row(fs, c).tid = Row(fs, d).id
    /\ Row(fs, d).tid = Row(fs, c).id
    /\ Row(fs, c).amt + Row(fs, d).amt = 0
    /\ Row(fs, c).amt < 0

\* C22 as claimed: after every reconciler run, the matched report lists
\* exactly the pairs of rows that hold each other's id in the ledger and
\* whose amounts cancel, one row per pair: every report row names such a
\* pair, and every such pair has one report row; so after a run that ends
\* with no linked row the report holds no pair.
C22_ReportListsCurrentPairs ==
    last.op = "link" =>
        /\ \A k \in DOMAIN matched :
              \E c, d \in Cells(files) :
                  /\ CancellingPair(files, c, d)
                  /\ matched[k].src_id = Row(files, c).id
                  /\ matched[k].tgt_id = Row(files, d).id
        /\ \A c, d \in Cells(files) :
              CancellingPair(files, c, d)
                  => Cardinality(ReportRows(Row(files, c).id, Row(files, d).id)) = 1

(***************************************************************************)
(* Downloads and reconciler runs in turn, as above, where the history of a *)
(* run keeps the ledger it read and whether it found an ambiguous log left *)
(* by an earlier run.                                                      *)
(***************************************************************************)
ReconcileLogged ==
    \E clear \in BOOLEAN :
        /\ link_transfers(clear)
        /\ last' = [op |-> "link", clear |-> clear, early |-> NoCsvFiles(files),
                    matches |-> IF NoCsvFiles(files) THEN 0
                                ELSE matches_found(StartDf(files, clear)),
                    pre |-> files, stale |-> amblog # <<>>]

NextLog == DownloadAgain \/ ReconcileLogged

SpecLog == Init /\ [][NextLog]_vars

\* C23: after a run that loaded a file, the ambiguous log holds exactly one
\* entry for each ambiguous group the run found and no other entry, so it
\* exists when a group was ambiguous; and when no group was ambiguous there
\* is no log, whether or not an earlier run left one.
C23_LogFollowsAmbiguousGroups ==
    RanLink =>
        /\ \A G \in AmbiguousGroups(last.pre, last.clear) :
              Cardinality(LogEntries(last.pre, G)) = 1
        /\ Len(amblog) = Cardinality(AmbiguousGroups(last.pre, last.clear))
        /\ AmbiguousGroups(last.pre, last.clear) # {} => amblog # <<>>
        /\ AmbiguousGroups(last.pre, last.clear) = {} => amblog = <<>>

\* a run that found the log of an earlier run, linked a pair, met no
\* ambiguous group and so left no log
C23_Witness ==
    /\ RanLink
    /\ last.stale
    /\ last.matches = 1
    /\ AmbiguousGroups(last.pre, last.clear) = {}
    /\ amblog = <<>>

\* the month files of the bank that hold transaction t as a row
FilesHolding(fs, bank, t) ==
    {f \in FileKeys :
        /\ f[1] = bank
        /\ \E j \in DOMAIN fs[f] : fs[f][j].id = t.id /\ fs[f][j].date = t.date}

\* C24 as claimed: after a save, every transaction of the batch is a row of
\* exactly one month file, the one named by the first seven characters of
\* its Date, whatever its Date is (empty and unnormalized dates included).
C24_EveryTransactionSaved ==
    [][last'.op = "save" =>
          \A k \in DOMAIN last'.batch :
              /\ Cardinality(FilesHolding(files', SaveBank, last'.batch[k])) = 1
              /\ \A f \in FilesHolding(files', SaveBank, last'.batch[k]) :
                    f[2] = Prefix7(last'.batch[k].date)]_vars

\* the first row of the batch that has key k
FirstRowWith(transactions, k) ==
    CHOOSE i \in DOMAIN transactions :
        /\ transactions[i][k].has
        /\ \A j \in 1..(i - 1) : ~transactions[j][k].has

\* key k has a value that counts in some row
HasValue(transactions, k) ==
    \E i \in DOMAIN transactions :
        transactions[i][k].has /\ CountsAsValue(transactions[i][k].val)

\* C25 as claimed: a write with a required-field list gives a header that
\* starts with the required fields that have a value, in the order of the
\* list, followed by the other keys that have a value, a key first met in
\* an earlier row before a key first met in a later row.
C25_HeaderInEncounterOrder ==
    (last.op = "write" /\ last.written /\ last.fieldnames # <<>>) =>
        LET required == SelectSeq(last.fieldnames,
                                  LAMBDA k : HasValue(last.transactions, k))
        IN  /\ Len(last.header) >= Len(required)
            /\ SubSeq(last.header, 1, Len(required)) = required
            /\ \A i, j \in (Len(required) + 1)..Len(last.header) :
                  FirstRowWith(last.transactions, last.header[i])
                      < FirstRowWith(last.transactions, last.header[j])
                  => i < j

\* the rule list with the patterns that do not compile taken out
WithoutBad(rules) ==
    [k \in DOMAIN rules |->
        [rules[k] EXCEPT !.regex = SelectSeq(@, LAMBDA p : p.kind # "bad")]]

\* C26: the payee normalize_payee returns under a rule list is the payee it
\* returns under the same list with every pattern that does not compile
\* removed: such a pattern is passed over, the patterns behind it in its
\* rule and all later rules are still tried.
C26_BadPatternAsIfRemoved ==
    last.op = "payee" =>
        last.payee = normalize_payee(WithoutBad(last.rules), last.raw)

\* the first rule's first pattern does not compile and its second one
\* matches the description: the rule is named, not the rule behind it,
\* which matches too
C26_Witness ==
    /\ last.op = "payee"
    /\ Len(last.rules) = 2
    /\ last.rules[1].name = <<"S">>
    /\ last.rules[1].regex[1].kind = "bad"
    /\ last.rules[2].name = <<"Q">>
    /\ last.raw = <<"B">>
    /\ last.payee = <<"S">>

(***************************************************************************)
(* The payee rules of one process: TransactionNormalizer._payee_rules,     *)
(* loaded by the first normalize_payee call that needs them from the rule  *)
(* path, which holds one YAML file, a directory of YAML files, or nothing, *)
(* and which can be edited while the process runs.  A YAML document is     *)
(* [shape, rules]: "list" holds a list under 'rules', "null" holds the key *)
(* 'rules' without a value, "norules" has no such key (or is empty), and   *)
(* "error" cannot be opened or parsed.                                     *)
(***************************************************************************)
MaxLoads == 2               \* times one process goes through the loading code

RuleP == [name |-> <<"P">>, keywords |-> << <<"a">> >>, regex |-> <<>>]
RuleQ == [name |-> <<"Q">>, keywords |-> <<>>, regex |-> <<[kind |-> "lit", text |-> <<"B">>]>>]

RuleLists == {<<>>, <<RuleP>>, <<RuleQ>>, <<RuleP, RuleQ>>, <<RuleQ, RuleP>>}

RuleDocs ==
    {[shape |-> "list", rules |-> l] : l \in RuleLists}
        \cup {[shape |-> s, rules |-> <<>>] : s \in {"null", "norules", "error"}}

DirDocs ==
    {[shape |-> "list", rules |-> <<RuleP>>], [shape |-> "list", rules |-> <<RuleQ>>],
     [shape |-> "null", rules |-> <<>>], [shape |-> "error", rules |-> <<>>]}

\* what settings.payee_rules_path can hold (a directory: its files sorted)
RuleSources ==
    {[kind |-> "missing", docs |-> <<>>]}
        \cup {[kind |-> "file", docs |-> <<d>>] : d \in RuleDocs}
        \cup {[kind |-> "dir", docs |-> ds] : ds \in SeqsUpTo(DirDocs, 2)}

\* _payee_rules is None
NotLoaded == [loaded |-> FALSE, rules |-> <<>>]
\* _payee_rules is a list
Cached(rules) == [loaded |-> TRUE, rules |-> rules]

\* the single-file branch: "cls._payee_rules = data['rules']" and the print
\* of its length, inside try/except Exception
LoadFile(doc) ==
    CASE doc.shape = "list" -> Cached(doc.rules)
      [] doc.shape = "null" -> NotLoaded
      [] OTHER -> Cached(<<>>)

\* the directory branch from file i on: "cls._payee_rules.extend(
\* data['rules'])", each file inside its own try/except Exception
RECURSIVE LoadDir(_, _)
LoadDir(docs, i) ==
    IF i > Len(docs) THEN <<>>
    ELSE (IF docs[i].shape = "list" THEN docs[i].rules ELSE <<>>) \o LoadDir(docs, i + 1)

\* _load_payee_rules: _payee_rules after the call (also its return value)
load_payee_rules(cache, source) ==
    IF cache.loaded THEN cache
    ELSE CASE source.kind = "missing" -> Cached(<<>>)
           [] source.kind = "dir" -> Cached(LoadDir(source.docs, 1))
           [] source.kind = "file" -> LoadFile(source.docs[1])

CachedInputs == {<<>>, <<"a">>, <<"B">>, <<"c">>}

\* history: the rule path's content, _payee_rules, how often the loading
\* code ran, the list the first load produced, and the last call: its
\* argument, whether it raised (iterating over None) and what it returned
InitRules ==
    /\ files = NoFiles
    /\ accounts = [b \in Banks |-> <<>>]
    /\ matched = <<>>
    /\ amblog = <<>>
    /\ run = Idle
    /\ \E source \in RuleSources :
          last = [op |-> "start", source |-> source, cache |-> NotLoaded, loads |-> 0,
                  first |-> NotLoaded, raw |-> <<>>, raised |-> FALSE, payee |-> <<>>]

\* normalize_payee(raw_payee) in the process: an empty argument returns
\* before the rules are asked for
CallCached ==
    /\ \E raw \in CachedInputs :
          LET loading == raw # <<>> /\ ~last.cache.loaded
              after == IF raw = <<>> THEN last.cache
                       ELSE load_payee_rules(last.cache, last.source)
          IN  /\ loading => last.loads < MaxLoads
              /\ last' = [op |-> "call", source |-> last.source, cache |-> after,
                          loads |-> IF loading THEN last.loads + 1 ELSE last.loads,
                          first |-> IF loading /\ last.loads = 0 THEN after ELSE last.first,
                          raw |-> raw,
                          raised |-> raw # <<>> /\ ~after.loaded,
                          payee |-> IF raw = <<>> \/ ~after.loaded THEN <<>>
                                    ELSE normalize_payee(after.rules, raw)]
    /\ UNCHANGED <<files, accounts, matched, amblog, run>>

\* the rule files are edited, replaced or removed
EditRules ==
    /\ \E source \in RuleSources \ {last.source} :
          last' = [last EXCEPT !.op = "edit", !.source = source]
    /\ UNCHANGED <<files, accounts, matched, amblog, run>>

NextRules == CallCached \/ EditRules

SpecRules == InitRules /\ [][NextRules]_vars

\* C27 as claimed: in one process the loading code runs at most once, and
\* every call that returns a payee for a non-empty argument returns the one
\* the list produced by the first load gives, whatever the rule path holds
\* by then and whatever the first load found.
C27_RulesLoadedOnce ==
    /\ last.loads <= 1
    /\ (last.op = "call" /\ last.raw # <<>> /\ ~last.raised)
          => last.payee = normalize_payee(last.first.rules, last.raw)

(***************************************************************************)
(* ensure_accounts_exist, called on batch after batch of one bank whose    *)
(* transactions carry an 'Account Number' in their raw data: none, blank,  *)
(* masked, the account's unique id, or longer numbers.  The history keeps  *)
(* the batch and the accounts.csv the call read.                           *)
(***************************************************************************)
EnsureNumbers == {<<>>, <<" ">>, <<"*", "1">>, <<"1">>, <<"1", "2">>, <<"*", "1", "2", "3">>}

EnsureTxns ==
    {[Txn(i, "2024-03-01", 1) EXCEPT !.num = n] : i \in {1, 2, 4}, n \in EnsureNumbers}

EnsureBatches == Batches(EnsureTxns)

InitEnsure ==
    /\ files = NoFiles
    /\ accounts = [b \in Banks |-> <<>>]
    /\ matched = <<>>
    /\ amblog = <<>>
    /\ run = Idle
    /\ last = [op |-> "init", batch |-> <<>>, before |-> <<>>]

EnsureCall ==
    /\ \E batch \in EnsureBatches :
          /\ accounts' = [accounts EXCEPT ![AcctBank] = ensure_accounts_exist(@, batch)]
          /\ last' = [op |-> "ensure", batch |-> batch, before |-> accounts[AcctBank]]
    /\ UNCHANGED <<files, matched, amblog, run>>

NextEnsure == EnsureCall

SpecEnsure == InitEnsure /\ [][NextEnsure]_vars

\* a number that is not empty (nor blank) and holds no '*'
Settled(s) == (\E i \in DOMAIN s : s[i] # " ") /\ (\A i \in DOMAIN s : s[i] # "*")

\* C28: every ensure_accounts_exist call keeps every account of
\* accounts.csv; an account whose stored number is not empty (nor blank)
\* and holds no '*' comes out with a number that is not empty, holds no '*'
\* and is not shorter; and an account whose stored number is its Unique
\* Account ID comes out with that number.
C28_NumberNeverWorsened ==
    last.op = "ensure" =>
        \A k \in DOMAIN last.before :
            \E j \in DOMAIN accounts[AcctBank] :
                /\ accounts[AcctBank][j].id = last.before[k].id
                /\ Settled(last.before[k].num) =>
                      /\ Settled(accounts[AcctBank][j].num)
                      /\ Len(accounts[AcctBank][j].num) >= Len(last.before[k].num)
                /\ last.before[k].num = AcctIdStr(last.before[k].id) =>
                      accounts[AcctBank][j].num = last.before[k].num

\* a call on a batch that offers account 1, stored under its unique id, a
\* longer number, and account 3, stored under "12", a longer masked number:
\* both keep their number
C28_Witness ==
    /\ last.op = "ensure"
    /\ Len(last.batch) = 2
    /\ last.batch[1].acct = 1
    /\ last.batch[1].num = <<"1", "2">>
    /\ last.batch[2].acct = 3
    /\ last.batch[2].num = <<"*", "1", "2", "3">>
    /\ \E k, j \in DOMAIN last.before :
          /\ last.before[k].id = 1
          /\ last.before[k].num = <<"1">>
          /\ last.before[j].id = 3
          /\ last.before[j].num = <<"1", "2">>
    /\ accounts[AcctBank] = last.before

\* C29 as claimed: two calls return the same id only when they agree on
\* all four of date, amount, description and account id, also when a field
\* holds the delimiter "|".
C29_SameIdOnlyForSameFields ==
    last.first.id = last.second.id => last.first.args = last.second.args

(***************************************************************************)
(* sort_payee_rules: the rule list sort_file writes back for a rule file,  *)
(* and normalize_payee of a description under the list as it was and under *)
(* the list as sorted.                                                     *)
(***************************************************************************)
\* the code point of a character (of those the rules are written in)
Ord(c) ==
    CASE c = " " -> 32 [] c = "(" -> 40 [] c = "^" -> 94
      [] c = "a" -> 97 [] c = "b" -> 98 [] c = "c" -> 99
      [] c = "p" -> 112 [] c = "q" -> 113 [] c = "r" -> 114
      [] c = "s" -> 115 [] c = "t" -> 116 [] c = "x" -> 120

\* s < t as Python compares strings
RECURSIVE StrLess(_, _)
StrLess(s, t) ==
    IF t = <<>> THEN FALSE
    ELSE IF s = <<>> THEN TRUE
    ELSE IF Ord(s[1]) # Ord(t[1]) THEN Ord(s[1]) < Ord(t[1])
    ELSE StrLess(Tail(s), Tail(t))

\* list.sort(key=...) of s, ks[i] being the key of s[i]: ascending by
\* key, equal keys in their old order
SortedBy(s, ks) ==
    LET Before(i, j) ==
            \/ StrLess(ks[i], ks[j])
            \/ ks[i] = ks[j] /\ i < j
    IN  [n \in DOMAIN s |->
            s[CHOOSE i \in DOMAIN s :
                  Cardinality({j \in DOMAIN s : Before(j, i)}) = n - 1]]

\* the text of a regex pattern
PatternStr(p) == IF p.kind = "start" THEN <<"^">> \o p.text ELSE p.text

KeywordKey(k) == LowerStr(k)
PatternKey(p) == LowerStr(PatternStr(p))
NameKey(rule) == LowerStr(rule.name)

\* data['rules'] as sort_file dumps it: keywords and regex sorted within
\* each rule, then the rules sorted by name, all by lower-case text
\* rule['keywords'].sort(...) and rule['regex'].sort(...) of one rule
sort_patterns(rule) ==
    [rule EXCEPT
        !.keywords = SortedBy(rule.keywords,
                              [i \in DOMAIN rule.keywords |-> KeywordKey(rule.keywords[i])]),
        !.regex = SortedBy(rule.regex,
                           [i \in DOMAIN rule.regex |-> PatternKey(rule.regex[i])])]

sort_file(rules) ==
    LET inner == [k \in DOMAIN rules |-> sort_patterns(rules[k])]
    IN  SortedBy(inner, [k \in DOMAIN inner |-> NameKey(inner[k])])

InitSort ==
    /\ files = NoFiles
    /\ accounts = [b \in Banks |-> <<>>]
    /\ matched = <<>>
    /\ amblog = <<>>
    /\ run = Idle
    /\ \E rules \in SeqsUpTo(PayeeRules, MaxRules) : \E raw \in PayeeInputs :
          last = [op |-> "rules", rules |-> rules, sorted |-> <<>>, raw |-> raw,
                  payee |-> <<>>, payee_sorted |-> <<>>]

\* the rule file is sorted; the description is normalised by a process that
\* loaded the file before and by one that loads it afterwards
SortRules ==
    /\ last.op = "rules"
    /\ last' = [last EXCEPT
                    !.op = "sorted",
                    !.sorted = sort_file(last.rules),
                    !.payee = normalize_payee(last.rules, last.raw),
                    !.payee_sorted = normalize_payee(sort_file(last.rules), last.raw)]
    /\ UNCHANGED <<files, accounts, matched, amblog, run>>

NextSort == SortRules

SpecSort == InitSort /\ [][NextSort]_vars

\* C30 as claimed: for every rule list and every description,
\* normalize_payee returns under the list sort_payee_rules writes the payee
\* it returns under the original list.
C30_SortKeepsPayee ==
    last.op = "sorted" => last.payee_sorted = last.payee

====
